---- MODULE Spec2Model ----
(***************************************************************************)
(* Vulkan select (aten/src/ATen/native/vulkan/ops/Select.cpp).             *)
(*                                                                         *)
(* The state is one input tensor `self`, the image memory of the GPU       *)
(* context, the context's queue of submitted compute jobs, and the outcome *)
(* of the last call of select.  Select is one atomic host-side step; the   *)
(* GPU runs the submitted jobs later, in order (Execute).                  *)
(***************************************************************************)
EXTENDS Integers, Sequences, FiniteSets, TLC

\* ---------------------------------------------------------------- bounds
MaxC == 5
MaxH == 2
MaxW == 2
MaxQueue == 2

\* 4u of div_up(c, 4u): channels per texel
Pack == 4

\* content of a texel component nobody has written yet
Uninit == -1

VARIABLES
  self,       \* the tensor select is called on
  images,     \* image memory of the context: image id -> [extents, texels]
  queue,      \* compute jobs submitted to the context, oldest first
  calls,      \* calls[i]: the (dim, index) arguments that submitted queue[i]
  executed,   \* number of jobs of the queue the GPU has run
  result,     \* outcome of the last call of select
  call,       \* arguments of the last call of select
  resources   \* counts of parameter buffers, barriers, host-to-device copies

vars == <<self, images, queue, calls, executed, result, call, resources>>

\* ------------------------------------------------------------ arithmetic
div_up(n, d) == (n + d - 1) \div d

RECURSIVE Product(_)
Product(s) == IF s = <<>> THEN 1 ELSE Head(s) * Product(Tail(s))

MaxOf(s) == CHOOSE m \in {s[i] : i \in DOMAIN s} : \A i \in DOMAIN s : s[i] <= m

\* -------------------------------------------------------- packed texture
\* extents of the image backing a tensor of the given sizes: (width, height,
\* ceil(depth / 4)), the leading dimensions being the depth
image_extents(sizes) ==
  LET n == Len(sizes)
      width == IF n >= 1 THEN sizes[n] ELSE 1
      height == IF n >= 2 THEN sizes[n - 1] ELSE 1
      depth == Product(SubSeq(sizes, 1, n - 2))
  IN <<width, height, div_up(depth, Pack)>>

Coords(ext) == (0 .. ext[1] - 1) \X (0 .. ext[2] - 1) \X (0 .. ext[3] - 1)

\* host data (row major, 1-based sequence) laid out in a packed texture
pack_texels(sizes, data) ==
  LET n == Len(sizes)
      width == IF n >= 1 THEN sizes[n] ELSE 1
      height == IF n >= 2 THEN sizes[n - 1] ELSE 1
      depth == Product(SubSeq(sizes, 1, n - 2))
  IN [p \in Coords(image_extents(sizes)) |->
        [k \in 1 .. Pack |->
           LET d == Pack * p[3] + (k - 1)
           IN IF d < depth THEN data[(d * height + p[2]) * width + p[1] + 1]
              ELSE 0]]

\* a freshly allocated image: every texel uninitialized
new_texels(ext) == [p \in Coords(ext) |-> [k \in 1 .. Pack |-> Uninit]]

\* the deterministic test pattern: element (c,h,w) holds c*H*W + h*W + w
pattern(sizes) == [i \in 1 .. Product(sizes) |-> i - 1]

\* ------------------------------------------------------------ the inputs
ScalarTypes == {"Float", "Half"}

Shapes3 ==
  {<<c, h, w>> : c \in 1 .. MaxC, h \in 1 .. MaxH, w \in 1 .. MaxW} \cup {<<2, 3, 4>>}

\* tensors select must reject: rank 1, 2 and 4
OtherShapes == {<<3>>, <<2, 3>>, <<5, 2>>, <<1, 2, 2, 3>>}

\* the tensors a sequence of calls is explored on
QueueShapes == {<<3, 1, 2>>, <<2, 3>>, <<1, 2, 2, 3>>}

Dims == -1 .. 3

\* every index valid for the largest dimension, and two steps beyond on each side
Indices(sizes) == -(MaxOf(sizes) + 2) .. (MaxOf(sizes) + 1)

\* a device-resident tensor owns image 1; a host tensor owns its data
Tensor(sizes, st, dev) ==
  [sizes |-> sizes, scalar_type |-> st, is_vulkan |-> dev,
   image |-> IF dev THEN 1 ELSE 0,
   data |-> IF dev THEN <<>> ELSE pattern(sizes)]

NoResult == [status |-> "none"]
NoCall == [dim |-> 0, index |-> 0, size_read |-> FALSE]

InitOn(shapes) ==
  /\ \E sizes \in shapes, st \in ScalarTypes, dev \in BOOLEAN :
       /\ self = Tensor(sizes, st, dev)
       /\ images = IF dev
                   THEN <<[extents |-> image_extents(sizes),
                           texels |-> pack_texels(sizes, pattern(sizes))]>>
                   ELSE <<>>
  /\ queue = <<>>
  /\ calls = <<>>
  /\ executed = 0
  /\ result = NoResult
  /\ call = NoCall
  /\ resources = [params |-> 0, barriers |-> 0, transfers |-> 0]

Init == InitOn(Shapes3 \cup OtherShapes)

InitQueue == InitOn(QueueShapes)

\* ------------------------------------------------------------- the plans
\* sizes of the output tensor
select_depth_sizes(v_input_sizes) == <<v_input_sizes[2], v_input_sizes[3]>>

\* faulty variant: height-select keeps the wrong pair of dimensions
select_height_sizes_swapped(v_input_sizes) == <<v_input_sizes[1], v_input_sizes[2]>>

select_height_sizes(v_input_sizes) == <<v_input_sizes[1], v_input_sizes[3]>>

select_width_sizes(v_input_sizes) == <<v_input_sizes[1], v_input_sizes[2]>>

\* global work group size, from the extents of the output texture
select_depth_global(ext) == ext

\* faulty variant: the channel groups rounded down instead of up
select_height_global_floor(ext) == <<ext[1], ext[2] \div Pack, 1>>

select_height_global(ext) ==
  LET w == ext[1]
      c == ext[2]
  IN <<w, div_up(c, Pack), 1>>

\* faulty variant: the output extents taken as the geometry, as depth-select does
select_width_global_extents(ext) == ext

select_width_global(ext) ==
  LET h == ext[1]
      c == ext[2]
  IN <<h, div_up(c, Pack), 1>>

\* faulty variant: the constructor hands out the image allocated last
new_image_reused(imgs) == IF Len(imgs) > 0 THEN Len(imgs) ELSE 1

\* id of the image a vTensor constructor allocates
new_image(imgs) == Len(imgs) + 1

\* const image(barrier, stage): read access; image(barrier, stage, WRITE)
input_access == "READ"

output_access == "WRITE"

\* faulty variant: the index left out of the block
Block_no_index(ext, index) == [size |-> ext, index |-> 0]

\* the Block handed to the shader: output texture size, then index
Block(ext, index) == [size |-> ext, index |-> index]

\* One plan: make the input device resident, allocate the output, build the
\* parameter block and the barrier, submit one job, return the output.
submit_plan(kernel, out_sizes, global, index, raw) ==
  LET transfer == ~self.is_vulkan
      in_id == IF transfer THEN new_image(images) ELSE self.image
      imgs1 == IF transfer
               THEN Append(images, [extents |-> image_extents(self.sizes),
                                    texels |-> pack_texels(self.sizes, self.data)])
               ELSE images
      out_id == new_image(imgs1)
      out_ext == image_extents(out_sizes)
      imgs2 == Append(imgs1, [extents |-> out_ext, texels |-> new_texels(out_ext)])
      job == [kernel |-> kernel,
              global_work_group_size |-> global,
              output |-> [image |-> out_id, access |-> output_access],
              input |-> [image |-> in_id, access |-> input_access],
              params |-> Block(out_ext, index)]
  IN /\ images' = imgs2
     /\ queue' = Append(queue, job)
     /\ calls' = Append(calls, raw)
     /\ resources' = [params |-> resources.params + 1,
                      barriers |-> resources.barriers + 1,
                      transfers |-> resources.transfers + (IF transfer THEN 1 ELSE 0)]
     /\ result' = [status |-> "ok",
                   tensor |-> [sizes |-> out_sizes,
                               scalar_type |-> self.scalar_type,
                               is_vulkan |-> TRUE,
                               image |-> out_id,
                               data |-> <<>>]]
     /\ UNCHANGED <<self, executed>>

select_depth(index, raw) ==
  submit_plan("select_depth", select_depth_sizes(self.sizes),
              select_depth_global(image_extents(select_depth_sizes(self.sizes))),
              index, raw)

select_height(index, raw) ==
  submit_plan("select_height", select_height_sizes(self.sizes),
              select_height_global(image_extents(select_height_sizes(self.sizes))),
              index, raw)

select_width(index, raw) ==
  submit_plan("select_width", select_width_sizes(self.sizes),
              select_width_global(image_extents(select_width_sizes(self.sizes))),
              index, raw)

\* ------------------------------------------------------------ the driver
RankMsg == "Vulkan select only supports 3d tensors!"

DimMsg == "Vulkan select only supports one of the dim (0, 1, 2)"

\* faulty variant: any rank from 3 on accepted
rank_ok_at_least(t) == Len(t.sizes) >= 3

rank_ok(t) == Len(t.sizes) = 3

dim_ok(dim) == 0 <= dim /\ dim <= 2

\* faulty variant: the upper bound off by one
index_out_of_range_off_by_one(index, size) == index < -size \/ index > size

index_out_of_range(index, size) == index < -size \/ index >= size

\* faulty variant: a negative index passed on as it is
wrap_index_none(index, size) == index

wrap_index(index, size) == IF index < 0 THEN index + size ELSE index

\* faulty variant: the axis checked before the rank
validate_axis_first(t, dim, index) ==
  IF ~(0 <= dim /\ dim <= 2)
  THEN [status |-> "Error", msg |-> DimMsg, size_read |-> FALSE]
  ELSE IF Len(t.sizes) # 3
  THEN [status |-> "Error", msg |-> RankMsg, size_read |-> FALSE]
  ELSE IF index < -t.sizes[dim + 1] \/ index >= t.sizes[dim + 1]
  THEN [status |-> "IndexError", index |-> index, sizes |-> t.sizes, dim |-> dim,
        size_read |-> TRUE]
  ELSE [status |-> "ok", size_read |-> TRUE]

\* the checks of select in the order the code makes them: the error the call
\* throws, or "ok"; size_read tells whether self.size(dim) was evaluated
validate(t, dim, index) ==
  IF ~rank_ok(t)
  THEN [status |-> "Error", msg |-> RankMsg, size_read |-> FALSE]
  ELSE IF ~dim_ok(dim)
  THEN [status |-> "Error", msg |-> DimMsg, size_read |-> FALSE]
  ELSE IF index_out_of_range(index, t.sizes[dim + 1])
  THEN [status |-> "IndexError", index |-> index, sizes |-> t.sizes, dim |-> dim,
        size_read |-> TRUE]
  ELSE [status |-> "ok", size_read |-> TRUE]

\* faulty variant: the plans of dimensions 1 and 2 exchanged
route_swapped(dim) == IF dim = 0 THEN "select_depth"
                      ELSE IF dim = 1 THEN "select_width"
                      ELSE "select_height"

\* which plan a dimension is routed to
route(dim) == IF dim = 0 THEN "select_depth"
              ELSE IF dim = 1 THEN "select_height"
              ELSE "select_width"

\* The plans take the index as uint32_t: the index handed over satisfies
\* 0 <= index < size after the checks and the wrap, so the narrowing from
\* int64_t keeps its value.
select(dim, index) ==
  LET v == validate(self, dim, index)
      raw == [dim |-> dim, index |-> index]
  IN /\ call' = [dim |-> dim, index |-> index, size_read |-> v.size_read]
     /\ IF v.status # "ok"
        THEN /\ result' = [f \in DOMAIN v \ {"size_read"} |-> v[f]]
             /\ UNCHANGED <<self, images, queue, calls, executed, resources>>
        ELSE LET idx == wrap_index(index, self.sizes[dim + 1])
             IN CASE route(dim) = "select_depth" -> select_depth(idx, raw)
                  [] route(dim) = "select_height" -> select_height(idx, raw)
                  [] OTHER -> select_width(idx, raw)

\* ------------------------------------------------------------ the kernels
\* the invocations of a job: one per point of its global work group size
Invocations(job) == Coords(job.global_work_group_size)

\* a read outside the image returns unspecified components
texelFetch(img, p) ==
  IF p \in DOMAIN img.texels THEN img.texels[p] ELSE [k \in 1 .. Pack |-> Uninit]

\* the texels of the input image the invocations of a job read
Reads(job) ==
  LET index == job.params.index
      size == job.params.size
  IN CASE job.kernel = "select_depth" ->
            {<<p[1], p[2], index \div Pack>> :
               p \in {q \in Invocations(job) : q \in Coords(size)}}
       [] job.kernel = "select_height" ->
            {<<p[1], index, p[2]>> : p \in Invocations(job)}
       [] OTHER ->
            {<<index, p[1], p[2]>> : p \in Invocations(job)}

\* select_depth: invocation (x,y) inside the output writes the component
\* index % 4 of the input texel (x, y, index / 4) to output (x, y)
kernel_select_depth(job, in, out) ==
  LET index == job.params.index
  IN [p \in DOMAIN out.texels |->
        IF p \in Invocations(job) /\ p \in Coords(job.params.size)
        THEN [k \in 1 .. Pack |->
                IF k = 1
                THEN texelFetch(in, <<p[1], p[2], index \div Pack>>)[(index % Pack) + 1]
                ELSE 0]
        ELSE out.texels[p]]

\* select_height: invocation (w, cGroup) reads the input texel
\* (w, index, cGroup) and writes its four channels to the output rows
\* 4*cGroup .. 4*cGroup+3 that lie inside the output
kernel_select_height(job, in, out) ==
  LET index == job.params.index
  IN [p \in DOMAIN out.texels |->
        IF /\ <<p[1], p[2] \div Pack, p[3]>> \in Invocations(job)
           /\ p[2] < job.params.size[2]
        THEN [k \in 1 .. Pack |->
                IF k = 1
                THEN texelFetch(in, <<p[1], index, p[2] \div Pack>>)[(p[2] % Pack) + 1]
                ELSE 0]
        ELSE out.texels[p]]

\* select_width: invocation (h, cGroup) reads the input texel
\* (index, h, cGroup) and writes its four channels to the output rows
\* 4*cGroup .. 4*cGroup+3 that lie inside the output
kernel_select_width(job, in, out) ==
  LET index == job.params.index
  IN [p \in DOMAIN out.texels |->
        IF /\ <<p[1], p[2] \div Pack, p[3]>> \in Invocations(job)
           /\ p[2] < job.params.size[2]
        THEN [k \in 1 .. Pack |->
                IF k = 1
                THEN texelFetch(in, <<index, p[1], p[2] \div Pack>>)[(p[2] % Pack) + 1]
                ELSE 0]
        ELSE out.texels[p]]

run_kernel(job, in, out) ==
  CASE job.kernel = "select_depth" -> kernel_select_depth(job, in, out)
    [] job.kernel = "select_height" -> kernel_select_height(job, in, out)
    [] OTHER -> kernel_select_width(job, in, out)

\* the GPU runs the oldest job it has not run yet
Execute ==
  /\ executed < Len(queue)
  /\ LET job == queue[executed + 1]
         in == images[job.input.image]
         out == images[job.output.image]
     IN images' = [images EXCEPT ![job.output.image].texels = run_kernel(job, in, out)]
  /\ executed' = executed + 1
  /\ UNCHANGED <<self, queue, calls, result, call, resources>>

\* ----------------------------------------------------- the specifications
\* a call of select on a context with nothing submitted yet
Call ==
  /\ queue = <<>>
  /\ \E dim \in Dims, index \in Indices(self.sizes) : select(dim, index)

Next == Call \/ Execute

Spec == Init /\ [][Next]_vars

\* a sequence of calls of select on one context
CallAgain ==
  /\ Len(queue) < MaxQueue
  /\ \E dim \in Dims, index \in Indices(self.sizes) : select(dim, index)

NextQueue == CallAgain \/ Execute

SpecQueue == InitQueue /\ [][NextQueue]_vars

\* ============================================================ properties
\* the sequence s without its i-th element
RemoveAt(s, i) == SubSeq(s, 1, i - 1) \o SubSeq(s, i + 1, Len(s))

\* a call of select has been made
Called == result.status # "none"

\* the arguments of the last call pass the rank and the axis check
ArgsValid == Len(self.sizes) = 3 /\ call.dim \in {0, 1, 2}

\* the index of the last call lies in [-size, size)
IndexValid ==
  LET size == self.sizes[call.dim + 1]
  IN -size <= call.index /\ call.index < size

\* element [a][b] of a rank-2 device tensor, read back from its image
Elem2(t, a, b) == images[t.image].texels[<<b, a, 0>>][1]

\* element [c][h][w] of the input tensor, computed on the host
Elem3(c, h, w) == (c * self.sizes[2] + h) * self.sizes[3] + w

\* C1: for a rank-3 input, an axis in {0,1,2} and an index in [-size, size),
\* select succeeds and returns a rank-2 tensor whose sizes are the input's with
\* the selected dimension removed and whose element type is the input's.
C1_ShapeAndType ==
  (Called /\ ArgsValid /\ IndexValid) =>
     /\ result.status = "ok"
     /\ Len(result.tensor.sizes) = 2
     /\ result.tensor.sizes = RemoveAt(self.sizes, call.dim + 1)
     /\ call.dim = 0 => result.tensor.sizes = <<self.sizes[2], self.sizes[3]>>
     /\ call.dim = 1 => result.tensor.sizes = <<self.sizes[1], self.sizes[3]>>
     /\ call.dim = 2 => result.tensor.sizes = <<self.sizes[1], self.sizes[2]>>
     /\ result.tensor.scalar_type = self.scalar_type

C1_Witness ==
  /\ self.sizes = <<2, 3, 4>>
  /\ self.scalar_type = "Half"
  /\ call.dim = 1
  /\ call.index = -1
  /\ result.status = "ok"
  /\ result.tensor.sizes = <<2, 4>>
  /\ result.tensor.scalar_type = "Half"

\* C2: once the GPU has run the job of a successful call, the returned tensor
\* equals the reference slice of the input, element by element:
\* select(t,0,i)[h][w] = t[i][h][w], select(t,1,i)[c][w] = t[c][i][w],
\* select(t,2,i)[c][h] = t[c][h][i], i being the index counted from the front.
C2_EqualsReference ==
  (result.status = "ok" /\ executed = Len(queue)) =>
     LET size == self.sizes[call.dim + 1]
         i == IF call.index < 0 THEN call.index + size ELSE call.index
         out == result.tensor
     IN \A a \in 0 .. out.sizes[1] - 1, b \in 0 .. out.sizes[2] - 1 :
          Elem2(out, a, b) = CASE call.dim = 0 -> Elem3(i, a, b)
                               [] call.dim = 1 -> Elem3(a, i, b)
                               [] OTHER -> Elem3(a, b, i)

C2_Witness ==
  /\ self.sizes = <<2, 3, 4>>
  /\ call.dim = 1
  /\ call.index = 2
  /\ result.status = "ok"
  /\ executed = 1
  /\ result.tensor.sizes = <<2, 4>>
  /\ Elem2(result.tensor, 1, 3) = 1 * 12 + 2 * 4 + 3
  /\ Elem2(result.tensor, 0, 0) = 8

\* C3: for a rank-3 input and an axis in {0,1,2}, an index below -size or at
\* least size makes select fail with an index error that carries the index as
\* given, the sizes of the tensor and the axis; no plan runs: nothing is
\* submitted and nothing is allocated.
C3_IndexOutOfRange ==
  (Called /\ ArgsValid /\ ~IndexValid) =>
     /\ result = [status |-> "IndexError", index |-> call.index,
                  sizes |-> self.sizes, dim |-> call.dim]
     /\ queue = <<>>
     /\ resources = [params |-> 0, barriers |-> 0, transfers |-> 0]
     /\ Len(images) = IF self.is_vulkan THEN 1 ELSE 0

C3_Witness ==
  /\ self.sizes = <<2, 3, 4>>
  /\ call.dim = 2
  /\ call.index \in {4, -5}
  /\ result.status = "IndexError"
  /\ result.index = call.index
  /\ queue = <<>>

\* a step that is a call of select (the GPU runs no job in it)
CallStep == executed' = executed

\* C4: a call on a tensor whose rank is not 3, or with an axis outside
\* {0,1,2}, fails with the argument error, and the step creates and touches no
\* GPU resource: image memory, queue, parameter buffers, barriers and
\* host-to-device copies are what they were.
C4_InvalidArgument ==
  [][(CallStep /\ (Len(self.sizes) # 3 \/ call'.dim \notin {0, 1, 2})) =>
       /\ result'.status = "Error"
       /\ result'.msg \in {RankMsg, DimMsg}
       /\ UNCHANGED <<images, queue, calls, resources, executed, self>>]_vars

C4_Witness ==
  /\ Len(self.sizes) = 3
  /\ call.dim = 3
  /\ result.status = "Error"
  /\ Len(queue) = 1
  /\ Len(images) >= 2
  /\ resources.params = 1

\* C5: two successful calls on the same axis whose indices are index < 0 and
\* index + size submit the same kernel, dispatch geometry and parameter block
\* over equal inputs, and once both jobs have run their outputs are equal.
C5_NegativeIndex ==
  \A i \in DOMAIN queue, j \in DOMAIN queue :
     (/\ calls[i].dim = calls[j].dim
      /\ calls[i].index < 0
      /\ calls[j].index = calls[i].index + self.sizes[calls[i].dim + 1]) =>
        /\ queue[i].kernel = queue[j].kernel
        /\ queue[i].global_work_group_size = queue[j].global_work_group_size
        /\ queue[i].params = queue[j].params
        /\ images[queue[i].input.image] = images[queue[j].input.image]
        /\ (i <= executed /\ j <= executed) =>
              images[queue[i].output.image] = images[queue[j].output.image]

C5_Witness ==
  /\ Len(queue) = 2
  /\ executed = 2
  /\ self.sizes = <<3, 1, 2>>
  /\ calls[1] = [dim |-> 0, index |-> -2]
  /\ calls[2] = [dim |-> 0, index |-> 1]
  /\ images[queue[1].output.image] = images[queue[2].output.image]
  /\ images[queue[1].output.image].texels[<<1, 0, 0>>][1] = 3

\* the kernel of an axis
KernelOf(dim) == CASE dim = 0 -> "select_depth"
                   [] dim = 1 -> "select_height"
                   [] OTHER -> "select_width"

\* C6: the dispatch of height-select and width-select has an invocation for
\* every channel 0 .. C-1 of every output column (the remainder group of a
\* channel count that is no multiple of 4 included), no invocation reads an
\* input texel outside the input image's extents (W, H, ceil(C/4)), and once
\* the job has run every element of the output has been written.
C6_PackingBoundary ==
  \A n \in DOMAIN queue :
     LET job == queue[n]
         C == self.sizes[1]
         in == images[job.input.image]
         out == images[job.output.image]
     IN job.kernel \in {"select_height", "select_width"} =>
          /\ in.extents = <<self.sizes[3], self.sizes[2], div_up(C, Pack)>>
          /\ \A x \in 0 .. out.extents[1] - 1, c \in 0 .. C - 1 :
               <<x, c \div Pack, 0>> \in Invocations(job)
          /\ Reads(job) \subseteq Coords(in.extents)
          /\ n <= executed =>
               \A x \in 0 .. out.extents[1] - 1, c \in 0 .. C - 1 :
                  out.texels[<<x, c, 0>>][1] # Uninit

C6_Witness ==
  /\ self.sizes = <<5, 2, 2>>
  /\ Len(queue) = 1
  /\ executed = 1
  /\ queue[1].kernel = "select_height"
  /\ queue[1].params.index = 1
  /\ queue[1].global_work_group_size = <<2, 2, 1>>
  /\ Elem2(result.tensor, 4, 1) = 4 * 4 + 1 * 2 + 1

\* C7 as stated: the output texture of height-select has extents
\* (W, ceil(C/4), 1) and the dispatch geometry is (W, ceil(C/4), 1); for
\* width-select both are (H, ceil(C/4), 1).
C7_Original ==
  \A n \in DOMAIN queue :
     LET job == queue[n]
         C == self.sizes[1]
         free == IF job.kernel = "select_height" THEN self.sizes[3] ELSE self.sizes[2]
     IN job.kernel \in {"select_height", "select_width"} =>
          /\ images[job.output.image].extents = <<free, div_up(C, Pack), 1>>
          /\ job.global_work_group_size = <<free, div_up(C, Pack), 1>>

\* C7 amended: the output texture of height-select has extents (W, C, 1), one
\* row per channel, and the dispatch geometry, computed from those extents, is
\* (W, ceil(C/4), 1); for width-select they are (H, C, 1) and (H, ceil(C/4), 1).
C7_Amended ==
  \A n \in DOMAIN queue :
     LET job == queue[n]
         C == self.sizes[1]
         free == IF job.kernel = "select_height" THEN self.sizes[3] ELSE self.sizes[2]
         ext == images[job.output.image].extents
     IN job.kernel \in {"select_height", "select_width"} =>
          /\ ext = <<free, C, 1>>
          /\ job.params.size = ext
          /\ job.global_work_group_size = <<ext[1], div_up(ext[2], Pack), 1>>
          /\ job.global_work_group_size = <<free, div_up(C, Pack), 1>>

C7_Witness ==
  /\ self.sizes = <<5, 2, 1>>
  /\ Len(queue) = 1
  /\ queue[1].kernel = "select_width"
  /\ images[queue[1].output.image].extents = <<2, 5, 1>>
  /\ queue[1].global_work_group_size = <<2, 2, 1>>

\* C8: a call that passes validation appends exactly one job to the queue:
\* the kernel of its axis, with a parameter block holding the extents of the
\* output texture and the index counted from the front, 0 <= index < size. A
\* call that fails validation appends none. No step changes, removes or
\* reorders a job already in the queue.
C8_OneJobPerCall ==
  [][/\ Len(queue') >= Len(queue)
     /\ SubSeq(queue', 1, Len(queue)) = queue
     /\ CallStep =>
          LET valid == /\ Len(self.sizes) = 3
                       /\ call'.dim \in {0, 1, 2}
                       /\ -self.sizes[call'.dim + 1] <= call'.index
                       /\ call'.index < self.sizes[call'.dim + 1]
          IN IF valid
             THEN LET job == queue'[Len(queue')]
                      size == self.sizes[call'.dim + 1]
                  IN /\ Len(queue') = Len(queue) + 1
                     /\ job.kernel = KernelOf(call'.dim)
                     /\ job.params.size = images'[job.output.image].extents
                     /\ job.params.index =
                          IF call'.index < 0 THEN call'.index + size ELSE call'.index
                     /\ 0 <= job.params.index /\ job.params.index < size
             ELSE queue' = queue]_vars

C8_Witness ==
  /\ Len(queue) = 2
  /\ queue[1].kernel = "select_width"
  /\ queue[2].kernel = "select_height"
  /\ calls[2].index = -1
  /\ queue[2].params.index = 0
  /\ executed = 1

\* C9: no step changes the input tensor or the image behind it. A successful
\* call returns a tensor on an image allocated in that call: it did not exist
\* before, it is not the input's image, and no earlier job writes it. The job
\* binds that image with write access and its input with read access.
C9_InputUntouched ==
  [][/\ self' = self
     /\ self.is_vulkan => images'[self.image] = images[self.image]
     /\ (CallStep /\ result'.status = "ok") =>
          LET job == queue'[Len(queue')]
              new == result'.tensor.image
          IN /\ new \notin DOMAIN images
             /\ new \in DOMAIN images'
             /\ self.is_vulkan => new # self.image
             /\ \A k \in DOMAIN queue :
                  queue[k].output.image # new /\ queue[k].input.image # new
             /\ job.output = [image |-> new, access |-> "WRITE"]
             /\ job.input.access = "READ"
             /\ job.input.image # new
             /\ \A k \in DOMAIN images : images'[k] = images[k]]_vars

C9_Witness ==
  /\ self.is_vulkan
  /\ Len(queue) = 2
  /\ executed = 2
  /\ queue[1].output.image = 2
  /\ queue[2].output.image = 3
  /\ queue[1].input.image = 1
  /\ queue[2].input.image = 1
  /\ images[1].texels = pack_texels(self.sizes, pattern(self.sizes))

\* C10: the checks have a fixed order, rank, then axis, then index: a tensor
\* of the wrong rank gets the rank error whatever the axis and the index are,
\* a rank-3 tensor with a bad axis gets the axis error whatever the index is,
\* and the extent of the axis is read only after rank and axis were accepted.
C10_Precedence ==
  Called =>
     /\ Len(self.sizes) # 3 => result = [status |-> "Error", msg |-> RankMsg]
     /\ (Len(self.sizes) = 3 /\ call.dim \notin {0, 1, 2}) =>
           result = [status |-> "Error", msg |-> DimMsg]
     /\ call.size_read => ArgsValid
     /\ result.status = "IndexError" => (ArgsValid /\ call.size_read)

C10_Witness ==
  /\ self.sizes = <<2, 3>>
  /\ call.dim = 3
  /\ call.index = 4
  /\ result = [status |-> "Error", msg |-> RankMsg]
  /\ ~call.size_read

====
